---- MODULE Spec2Model ----
(***************************************************************************)
(* Version extraction (data_collection/versioning/get_versions_by_git.py)  *)
(* and reconciliation (data_collection/versioning/merge_final_data.py).    *)
(*                                                                         *)
(* Spec      : one run of get_versions_by_git.main: reading the task file, *)
(*             the already-processed filter, validation, the sequential    *)
(*             clone cache, the process pool and the final save.           *)
(* MergeSpec : one run of merge_final_data.main: merge, sort, write.       *)
(* AgentSpec : the successive run_task calls of one WriteDockerfileAgent    *)
(*             (app/agents/write_dockerfile_agent/write_dockerfile_agent.py).*)
(***************************************************************************)
EXTENDS Integers, Sequences, FiniteSets, TLC

VARIABLES
    \* ---- get_versions_by_git.main ----
    tasks,        \* the task list (at pc = "start": the records of the input file)
    max_workers,  \* args.max_workers
    pc,           \* position of main
    exitStatus,   \* process exit status; Running while main has not ended
    cachePos,     \* index of the task prepare_repo_cache's loop is at
    repo_cache,   \* dict repo -> local path (NoPath: no entry)
    cloneCalls,   \* repo -> number of "git clone" commands run for it
    fs,           \* the directories that exist under the testbed
    tpc,          \* per submitted task: position of its process_repo_task call
    ver,          \* per submitted task: the version its extraction derived
    fut,          \* per submitted task: state of its future
    collected,    \* futures the as_completed loop has consumed
    results,      \* process_repos' results list
    fault,        \* the fatal condition main has met, "none" so far
    last,         \* what lines 156-161 find of the previous stage, until the
                  \* filter has used it
    \* ---- merge_final_data.main ----
    primary, secondary, merged, mpc,
    \* ---- WriteDockerfileAgent ----
    run_count,          \* self.run_count
    using_ubuntu_only,  \* self.using_ubuntu_only
    reference_setup,    \* TRUE when self.reference_setup is set
    msg_thread,         \* self.msg_thread: the kinds of its messages, in order
    dockerfiles,        \* n -> content of write_dockerfile_agent_<n>/Dockerfile
    output_dirs,        \* the n whose directory write_dockerfile_agent_<n> exists
    conversations,      \* the n whose directory holds conversation.json
    prev_dir, curr_dir, \* run_task's locals (the number in the directory name)
    used,               \* history: curr_dir of every call so far
    returned,           \* history: is_ok of every call that returned
    apc                 \* position of the agent

xvars == <<tasks, max_workers, pc, exitStatus, cachePos, repo_cache, cloneCalls,
           fs, tpc, ver, fut, collected, results, fault, last>>
mvars == <<primary, secondary, merged, mpc>>
avars == <<run_count, using_ubuntu_only, reference_setup, msg_thread, dockerfiles,
           output_dirs, conversations, prev_dir, curr_dir, used, returned, apc>>
vars == <<xvars, mvars, avars>>

\* ------------------------------------------------------------------ bounds
MaxTasks == 2
MaxWorkers == 2
MaxLen == 2
MaxRuns == 3

\* ------------------------------------------------------------------ helpers
SeqsUpTo(S, n) == UNION {[1..k -> S] : k \in 0..n}

IsPrefix(p, q) == Len(p) <= Len(q) /\ SubSeq(q, 1, Len(p)) = p

\* Two paths overlap when one is the other or lies under it.
Overlap(p, q) == IsPrefix(p, q) \/ IsPrefix(q, p)

\* ------------------------------------------------------------------ data
\* A repository id "owner/name" is the sequence <<owner, name>>; a path is a
\* sequence of components below the testbed, each component a sequence of
\* tokens.
Repos == {<<"x", "y">>, <<"x", "z">>}

InstanceIds == {<<"t1">>, <<"t2">>, <<"_cache">>}

\* A task record; has_base_commit = FALSE is a record without that key.
ValidTasks ==
    [repo : Repos, instance_id : InstanceIds, has_base_commit : {TRUE}]

TaskRecords ==
    ValidTasks \cup
    {[repo |-> <<"x", "y">>, instance_id |-> <<"t1">>, has_base_commit |-> FALSE]}

\* What find_github_file and get_instances find of the previous stage:
\*   "noarg"   --last_stage_output_dir is not given (its default is None)
\*   "absent"  no file of the directory matches the pattern
\*   "broken"  a file matches and cannot be read
\*   "found"   a file matches; ids = the instance ids of its records
LastStages ==
    {[file |-> f, ids |-> {}] : f \in {"noarg", "absent", "broken"}}
        \cup {[file |-> "found", ids |-> s] : s \in SUBSET {<<"t1">>, <<"t2">>}}

\* github_file, processed and seen are not used after line 166
Spent == [file |-> "spent", ids |-> {}]

NoPath == <<>>
Running == 0 - 1
NoVersion == <<>>

\* repo.replace("/", "__")
ReplaceSlash(repo) == <<repo[1], "__", repo[2]>>

\* cache_dir = os.path.join(args.testbed, "_cache")
CacheDir == << <<"_cache">> >>

\* local_path = os.path.join(cache_dir, repo.replace("/", "__"))
LocalPath(repo) == Append(CacheDir, ReplaceSlash(repo))

\* repo_dir = os.path.join(testbed, instance_id)
RepoDir(task) == << task.instance_id >>

\* os.makedirs(p, exist_ok=True), when it succeeds
Makedirs(dirs, p) == dirs \cup {p}

\* shutil.rmtree(p, ignore_errors=True): p and everything under it
Rmtree(dirs, p) == {q \in dirs : ~IsPrefix(p, q)}

\* shutil.copytree(src, dst, dirs_exist_ok=True): dst is created if absent
Copytree(dirs, src, dst) == dirs \cup {dst}

\* ---- get_version_by_git: the regular expression on the describe output
\* A descriptor is a sequence of tokens: maximal digit runs, "." and other text.
DigitRuns == {"0", "1", "2", "3"}

Descriptors ==
    { <<"v", "2", ".", "3", ".", "1", "-0-gabc">>,
      <<"nightly">> }

MatchAt(d, i) ==
    /\ i + 2 <= Len(d)
    /\ d[i] \in DigitRuns
    /\ d[i + 1] = "."
    /\ d[i + 2] \in DigitRuns

\* re.search(r"(\d+\.\d+)(?:\.\d+)?", version): group 1 of the leftmost match
VersionOf(d) ==
    IF \E i \in 1..Len(d) : MatchAt(d, i)
    THEN LET i == CHOOSE j \in 1..Len(d) :
                      MatchAt(d, j) /\ \A k \in 1..(j - 1) : ~MatchAt(d, k)
         IN <<d[i], ".", d[i + 2]>>
    ELSE NoVersion

\* ------------------------------------------------------------------ main
Submitted == 1..Len(tasks)

XInit ==
    /\ tasks \in SeqsUpTo(TaskRecords, MaxTasks)
    /\ max_workers \in 1..MaxWorkers
    /\ pc = "start"
    /\ exitStatus = Running
    /\ cachePos = 1
    /\ repo_cache = [r \in Repos |-> NoPath]
    /\ cloneCalls = [r \in Repos |-> 0]
    /\ fs = {}
    /\ tpc = <<>>
    /\ ver = <<>>
    /\ fut = <<>>
    /\ collected = {}
    /\ results = <<>>
    /\ fault = "none"
    /\ last \in LastStages

MIdle ==
    /\ primary = <<>>
    /\ secondary = <<>>
    /\ merged = <<>>
    /\ mpc = "idle"

\* A path without a file
NoFile == <<>>

AIdle ==
    /\ run_count = 0
    /\ using_ubuntu_only = FALSE
    /\ reference_setup = FALSE
    /\ msg_thread = <<>>
    /\ dockerfiles = [n \in 0..MaxRuns |-> NoFile]
    /\ output_dirs = {}
    /\ conversations = {}
    /\ prev_dir = 0
    /\ curr_dir = 0
    /\ used = <<>>
    /\ returned = <<>>
    /\ apc = "off"

\* main, lines 149-153: get_instances raises -> message and plain return
ReadInstances ==
    /\ pc = "start"
    /\ \E readable \in BOOLEAN :
          IF readable
          THEN /\ pc' = "filter"
               /\ UNCHANGED <<exitStatus, fault>>
          ELSE /\ pc' = "exit"
               /\ exitStatus' = 0
               /\ fault' = "unreadable_input"
    /\ UNCHANGED <<mvars, avars, last, tasks, max_workers, cachePos, repo_cache, cloneCalls, fs,
                   tpc, ver, fut, collected, results>>

\* find_github_file, lines 121-131, called at line 156: os.path.join(None, ...)
\* raises TypeError, outside any try
FindRaises(l) == l.file = "noarg"

\* main, lines 158-166: the task list after the filter. An unreadable file
\* gives a warning and leaves the list as it is.
Filtered(ts, l) ==
    IF l.file = "found"
    THEN SelectSeq(ts, LAMBDA t : t.instance_id \notin l.ids)
    ELSE ts

\* main, lines 156-166
SkipProcessed ==
    /\ pc = "filter"
    /\ IF FindRaises(last)
       THEN /\ pc' = "exit"
            /\ exitStatus' = 1
            /\ fault' = "no_last_stage_dir"
            /\ UNCHANGED tasks
       ELSE /\ pc' = "validate"
            /\ tasks' = Filtered(tasks, last)
            /\ UNCHANGED <<exitStatus, fault>>
    /\ last' = Spent
    /\ UNCHANGED <<mvars, avars, max_workers, cachePos, repo_cache, cloneCalls, fs,
                   tpc, ver, fut, collected, results>>

\* main, lines 168-171: a task without a required key -> message and plain return
ValidateTasks ==
    /\ pc = "validate"
    /\ IF \E i \in 1..Len(tasks) : ~tasks[i].has_base_commit
       THEN /\ pc' = "exit"
            /\ exitStatus' = 0
            /\ fault' = "missing_field"
            /\ UNCHANGED fs
       ELSE /\ pc' = "cache"
            /\ fs' = Makedirs(fs, CacheDir)       \* prepare_repo_cache, line 52
            /\ UNCHANGED <<exitStatus, fault>>
    /\ UNCHANGED <<mvars, avars, last, tasks, max_workers, cachePos, repo_cache, cloneCalls,
                   tpc, ver, fut, collected, results>>

\* prepare_repo_cache, lines 54-65: one iteration of the loop
CacheTask ==
    /\ pc = "cache"
    /\ cachePos <= Len(tasks)
    /\ LET repo == tasks[cachePos].repo IN
          IF repo_cache[repo] # NoPath
          THEN UNCHANGED <<repo_cache, cloneCalls, fs>>
          ELSE /\ cloneCalls' = [cloneCalls EXCEPT ![repo] = @ + 1]
               /\ \E cloned \in BOOLEAN :
                     IF cloned
                     THEN /\ repo_cache' = [repo_cache EXCEPT ![repo] = LocalPath(repo)]
                          /\ fs' = fs \cup {LocalPath(repo)}
                     ELSE UNCHANGED <<repo_cache, fs>>
    /\ cachePos' = cachePos + 1
    /\ UNCHANGED <<mvars, avars, last, fault, tasks, max_workers, pc, exitStatus, tpc, ver, fut,
                   collected, results>>

\* prepare_repo_cache returns; process_repos, lines 94-97: every task submitted
SubmitAll ==
    /\ pc = "cache"
    /\ cachePos > Len(tasks)
    /\ pc' = "pool"
    /\ tpc' = [i \in Submitted |-> "queued"]
    /\ ver' = [i \in Submitted |-> NoVersion]
    /\ fut' = [i \in Submitted |-> "pending"]
    /\ UNCHANGED <<mvars, avars, last, fault, tasks, max_workers, exitStatus, cachePos, repo_cache,
                   cloneCalls, fs, collected, results>>

\* The except clause of line 86 has caught the exception of:
\*   "failed_cache"    line 78 (no cache entry, or its directory is gone)
\*   "failed_copy"     shutil.copytree, line 79
\*   "failed_checkout" cd or git checkout, lines 80-81
\*   "failed_describe" git describe --tags, line 34 (no reachable tag)
\*   "failed_pattern"  line 40 (no major.minor in the descriptor)
FailedAt == {"failed_cache", "failed_copy", "failed_checkout", "failed_describe",
             "failed_pattern"}

InFlight(i) == tpc[i] \in {"made", "copied", "extracted"} \cup FailedAt

PoolOpen == pc \in {"pool", "unwinding"}

\* A worker takes the next queued task; process_repo_task, lines 70-74.
\* os.makedirs stands before the try: when it raises, the call raises.
StartTask(i) ==
    /\ PoolOpen
    /\ i \in DOMAIN tpc
    /\ tpc[i] = "queued"
    /\ \A j \in 1..(i - 1) : tpc[j] # "queued"
    /\ Cardinality({j \in DOMAIN tpc : InFlight(j)}) < max_workers
    /\ \E made \in BOOLEAN :
          IF made
          THEN /\ fs' = Makedirs(fs, RepoDir(tasks[i]))
               /\ tpc' = [tpc EXCEPT ![i] = "made"]
               /\ UNCHANGED fut
          ELSE /\ tpc' = [tpc EXCEPT ![i] = "done"]
               /\ fut' = [fut EXCEPT ![i] = "raised"]
               /\ UNCHANGED fs
    /\ UNCHANGED <<mvars, avars, last, fault, tasks, max_workers, pc, exitStatus, cachePos, repo_cache,
                   cloneCalls, ver, collected, results>>

\* (mutation of CacheAfterGet: a worker fills in a missing entry)
CacheAfterSetdefault(cache, repo) ==
    [cache EXCEPT ![repo] = IF @ = NoPath THEN LocalPath(repo) ELSE @]

\* process_repo_task, line 76: repo_cache.get(repo) leaves the mapping as it is
CacheAfterGet(cache, repo) == cache

\* process_repo_task, lines 76-79
CopyCached(i) ==
    /\ PoolOpen
    /\ i \in DOMAIN tpc
    /\ tpc[i] = "made"
    /\ repo_cache' = CacheAfterGet(repo_cache, tasks[i].repo)
    /\ LET cached_repo == repo_cache[tasks[i].repo] IN
          IF cached_repo = NoPath \/ cached_repo \notin fs
          THEN /\ tpc' = [tpc EXCEPT ![i] = "failed_cache"]
               /\ UNCHANGED fs
          ELSE /\ fs' = Copytree(fs, cached_repo, RepoDir(tasks[i]))
               /\ \E copied \in BOOLEAN :
                     tpc' = [tpc EXCEPT ![i] = IF copied THEN "copied" ELSE "failed_copy"]
    /\ UNCHANGED <<mvars, avars, last, fault, tasks, max_workers, pc, exitStatus, cachePos,
                   cloneCalls, ver, fut, collected, results>>

\* process_repo_task, lines 80-84: checkout, describe, version pattern
Extract(i) ==
    /\ PoolOpen
    /\ i \in DOMAIN tpc
    /\ tpc[i] = "copied"
    /\ IF RepoDir(tasks[i]) \notin fs
       THEN /\ tpc' = [tpc EXCEPT ![i] = "failed_checkout"]       \* cd raises
            /\ UNCHANGED ver
       ELSE \/ /\ \E step \in {"failed_checkout", "failed_describe"} :
                     tpc' = [tpc EXCEPT ![i] = step]
               /\ UNCHANGED ver
            \/ \E d \in Descriptors :
                  IF VersionOf(d) = NoVersion
                  THEN /\ tpc' = [tpc EXCEPT ![i] = "failed_pattern"]
                       /\ UNCHANGED ver
                  ELSE /\ tpc' = [tpc EXCEPT ![i] = "extracted"]
                       /\ ver' = [ver EXCEPT ![i] = VersionOf(d)]
    /\ UNCHANGED <<mvars, avars, last, fault, tasks, max_workers, pc, exitStatus, cachePos,
                   repo_cache, cloneCalls, fs, fut, collected, results>>

\* (mutation of Cleanup: the directory is removed on the success path only)
CleanupOnSuccessOnly(dirs, i) ==
    IF tpc[i] = "extracted" THEN Rmtree(dirs, RepoDir(tasks[i])) ELSE dirs

\* process_repo_task, lines 89-90: the finally clause
Cleanup(dirs, i) == Rmtree(dirs, RepoDir(tasks[i]))

\* (mutation of Outcome: the except clause returns a record as well)
OutcomeWithPlaceholder(i) == "result"

\* process_repo_task, lines 85 and 88: the record, or None from the except clause
Outcome(i) == IF tpc[i] = "extracted" THEN "result" ELSE "none"

\* process_repo_task, lines 85-90: return / except, then the finally clause
FinishTask(i) ==
    /\ PoolOpen
    /\ i \in DOMAIN tpc
    /\ tpc[i] \in {"extracted"} \cup FailedAt
    /\ fs' = Cleanup(fs, i)
    /\ fut' = [fut EXCEPT ![i] = Outcome(i)]
    /\ tpc' = [tpc EXCEPT ![i] = "done"]
    /\ UNCHANGED <<mvars, avars, last, fault, tasks, max_workers, pc, exitStatus, cachePos, repo_cache,
                   cloneCalls, ver, collected, results>>

\* (mutation of Collected: the "if res" test is missing)
CollectedUnfiltered(res, i) == Append(res, [task |-> i, version |-> ver[i]])

\* process_repos, lines 99-101: what the loop does with one future's outcome
Collected(res, i) ==
    IF fut[i] = "result"
    THEN Append(res, [task |-> i, version |-> ver[i]])
    ELSE res

\* One iteration of the as_completed loop. future.result() re-raises what
\* the call raised; the exception leaves the loop and the with block.
Collect(i) ==
    /\ pc = "pool"
    /\ i \in DOMAIN tpc
    /\ i \notin collected
    /\ tpc[i] = "done"
    /\ collected' = collected \cup {i}
    /\ IF fut[i] = "raised"
       THEN /\ pc' = "unwinding"
            /\ UNCHANGED results
       ELSE /\ results' = Collected(results, i)
            /\ UNCHANGED pc
    /\ UNCHANGED <<mvars, avars, last, fault, tasks, max_workers, exitStatus, cachePos, repo_cache,
                   cloneCalls, fs, tpc, ver, fut>>

\* process_repos returns (line 102) once every future has been consumed
ReturnResults ==
    /\ pc = "pool"
    /\ collected = Submitted
    /\ pc' = "save"
    /\ UNCHANGED <<mvars, avars, last, fault, tasks, max_workers, exitStatus, cachePos, repo_cache,
                   cloneCalls, fs, tpc, ver, fut, collected, results>>

\* The executor's shutdown waits for every task, then the exception of
\* future.result() leaves process_repos and main: traceback, status 1.
Unwind ==
    /\ pc = "unwinding"
    /\ \A i \in DOMAIN tpc : tpc[i] = "done"
    /\ pc' = "exit"
    /\ exitStatus' = 1
    /\ UNCHANGED <<mvars, avars, last, fault, tasks, max_workers, cachePos, repo_cache,
                   cloneCalls, fs, tpc, ver, fut, collected, results>>

\* main, lines 178-185: save_results raises when the output cannot be written
SaveResults ==
    /\ pc = "save"
    /\ pc' = "exit"
    /\ \E writable \in BOOLEAN :
          IF writable
          THEN /\ exitStatus' = 0
               /\ UNCHANGED fault
          ELSE /\ exitStatus' = 1
               /\ fault' = "unwritable_output"
    /\ UNCHANGED <<mvars, avars, last, tasks, max_workers, cachePos, repo_cache,
                   cloneCalls, fs, tpc, ver, fut, collected, results>>

XNext ==
    \/ ReadInstances
    \/ SkipProcessed
    \/ ValidateTasks
    \/ CacheTask
    \/ SubmitAll
    \/ \E i \in 1..(MaxTasks + 1) : StartTask(i)
    \/ \E i \in 1..(MaxTasks + 1) : CopyCached(i)
    \/ \E i \in 1..(MaxTasks + 1) : Extract(i)
    \/ \E i \in 1..(MaxTasks + 1) : FinishTask(i)
    \/ \E i \in 1..(MaxTasks + 1) : Collect(i)
    \/ ReturnResults
    \/ Unwind
    \/ SaveResults

Init == XInit /\ MIdle /\ AIdle

Next == XNext

Spec == Init /\ [][Next]_vars

\* ================================================= properties of Spec

\* No directory at or under the workspace of task i exists in dirs.
WorkspaceGone(dirs, i) == \A q \in dirs : ~IsPrefix(RepoDir(tasks[i]), q)

\* Some clone or some task of the pool has been started.
WorkStarted == (\E r \in Repos : cloneCalls[r] > 0) \/ tpc # <<>>

\* process_repos has returned its list (line 102).
Returned ==
    \/ pc = "save"
    \/ pc = "exit" /\ tpc # <<>> /\ \A i \in DOMAIN fut : fut[i] # "raised"

C2_TaskFailureIsolated ==
    /\ pc # "unwinding"
    /\ (pc = "exit" /\ tpc # <<>>) => collected = Submitted

\* C3: once prepare_repo_cache has returned, "git clone" has run exactly
\* once for every repository the task list references.
C3_ClonedExactlyOnce ==
    pc = "pool" => \A i \in 1..Len(tasks) : cloneCalls[tasks[i].repo] = 1

\* C7: an unreadable input file, a task without a required key or an
\* unwritable output ends the run with a non-zero status before any clone
\* or task was started.
C7_FatalAbortsEarly ==
    (pc = "exit" /\ fault \in {"unreadable_input", "missing_field", "unwritable_output"})
        => (exitStatus # 0 /\ ~WorkStarted)

\* C8: two task attempts in flight at the same time never have the same
\* or overlapping workspace paths.
C8_WorkspacesDisjoint ==
    \A i, j \in DOMAIN tpc :
        (i # j /\ InFlight(i) /\ InFlight(j))
            => ~Overlap(RepoDir(tasks[i]), RepoDir(tasks[j]))

\* The tasks whose repository has no cache entry (its clone failed).
Uncached == {i \in Submitted : repo_cache[tasks[i].repo] = NoPath}

\* The tasks of cached repositories whose own extraction failed.
ExtractionFailed == {i \in Submitted \ Uncached : fut[i] = "none"}

\* C9: the list process_repos returns holds exactly one record for each
\* submitted task whose repository was cloned and whose extraction
\* succeeded, and nothing else; its size is the number of submitted tasks
\* minus the tasks of uncloned repositories minus the tasks whose own
\* extraction failed.
C9_ResultsAreTheSuccesses ==
    Returned =>
        /\ \A k, l \in 1..Len(results) : results[k].task = results[l].task => k = l
        /\ {results[k].task : k \in 1..Len(results)}
              = {i \in Submitted \ Uncached : fut[i] = "result"}
        /\ Len(results)
              = Len(tasks) - Cardinality(Uncached) - Cardinality(ExtractionFailed)

\* C9 witness: process_repos returned a list that leaves out a task of an
\* uncloned repository and keeps a task that succeeded.
C9_Witness ==
    /\ pc = "save"
    /\ Uncached # {}
    /\ Len(results) >= 1

\* ================================================= merge_final_data.py
\* A pull_number value. kind "int": a JSON number, val; kind "str": a JSON
\* string, text = its code points; kind "missing": the record has no such key.
\* Two values are equal here exactly when Python's == (and the set) says so.
PInt(n) == [kind |-> "int", val |-> n, text |-> <<>>]
PStr(t) == [kind |-> "str", val |-> 0, text |-> t]
PMissing == [kind |-> "missing", val |-> 0, text |-> <<>>]

\* A record: its pull_number and the rest of its fields (tag).
Rec(p, g) == [pn |-> p, tag |-> g]

R3a == Rec(PInt(3), "a")
R3b == Rec(PInt(3), "b")
R5 == Rec(PInt(5), "a")
R7 == Rec(PInt(7), "b")
Rs3 == Rec(PStr(<<51>>), "a")       \* pull_number "3"
Rx == Rec(PStr(<<120>>), "a")       \* pull_number "x"
Rmissing == Rec(PMissing, "a")

Records == {R3a, R3b, R5, R7, Rs3, Rx, Rmissing}

HasPn(r) == r.pn.kind # "missing"

\* {inst.get('pull_number') for inst in lst if 'pull_number' in inst}
PnSet(lst) == {lst[i].pn : i \in {j \in 1..Len(lst) : HasPn(lst[j])}}

\* (mutation of MergeLoop: a record without pull_number is not skipped)
RECURSIVE MergeLoopKeepMissing(_, _, _, _)
MergeLoopKeepMissing(out, seen, sec, i) ==
    IF i > Len(sec) THEN out
    ELSE LET inst == sec[i] IN
         IF inst.pn \notin seen
         THEN MergeLoopKeepMissing(Append(out, inst), seen \cup {inst.pn}, sec, i + 1)
         ELSE MergeLoopKeepMissing(out, seen, sec, i + 1)

\* merge, lines 54-61: the loop over secondary from index i on
RECURSIVE MergeLoop(_, _, _, _)
MergeLoop(out, seen, sec, i) ==
    IF i > Len(sec) THEN out
    ELSE LET inst == sec[i] IN
         IF ~HasPn(inst) THEN MergeLoop(out, seen, sec, i + 1)
         ELSE IF inst.pn \notin seen
              THEN MergeLoop(Append(out, inst), seen \cup {inst.pn}, sec, i + 1)
              ELSE MergeLoop(out, seen, sec, i + 1)

\* (mutation of merge: the "pn not in seen" test is missing)
mergeWithoutSeen(prim, sec) == prim \o SelectSeq(sec, HasPn)

\* merge(primary, secondary), lines 47-62
merge(prim, sec) == MergeLoop(prim, PnSet(prim), sec, 1)

\* ---- the sort keys of main, lines 122-125
IsDigit(c) == c \in 48..57

RECURSIVE Decimal(_)
Decimal(t) ==
    IF t = <<>> THEN 0
    ELSE 10 * Decimal(SubSeq(t, 1, Len(t) - 1)) + (t[Len(t)] - 48)

\* int(x) raises ValueError on a string that is no decimal numeral
IntParses(p) ==
    p.kind = "str" => (p.text # <<>> /\ \A k \in 1..Len(p.text) : IsDigit(p.text[k]))

\* int(x.get('pull_number', 0))
IntKey(r) ==
    CASE r.pn.kind = "int" -> r.pn.val
      [] r.pn.kind = "str" -> Decimal(r.pn.text)
      [] OTHER -> 0

\* str < str: code point by code point, a proper prefix first
RECURSIVE StrLess(_, _)
StrLess(a, b) ==
    IF b = <<>> THEN FALSE
    ELSE IF a = <<>> THEN TRUE
    ELSE IF a[1] # b[1] THEN a[1] < b[1]
    ELSE StrLess(Tail(a), Tail(b))

\* x.get('pull_number', "")
RawKey(r) == r.pn

\* > on two raw keys of the same type
RawGreater(r, q) ==
    IF RawKey(r).kind = "int" THEN RawKey(r).val > RawKey(q).val
    ELSE StrLess(RawKey(q).text, RawKey(r).text)

\* > on the keys of two records: numeric in the first sort, raw in the second
KeyGreater(numeric, r, q) ==
    IF numeric THEN IntKey(r) > IntKey(q) ELSE RawGreater(r, q)

\* (mutation of SortRank: records of equal key come out in reverse order)
SortRankTiesReversed(lst, numeric, i) ==
    1 + Cardinality({j \in 1..Len(lst) : KeyGreater(numeric, lst[j], lst[i])})
      + Cardinality({j \in (i + 1)..Len(lst) :
                        /\ ~KeyGreater(numeric, lst[j], lst[i])
                        /\ ~KeyGreater(numeric, lst[i], lst[j])})

\* list.sort(key=..., reverse=True) is stable: records of equal key keep
\* their order. Rank of the record at index i in the sorted list:
SortRank(lst, numeric, i) ==
    1 + Cardinality({j \in 1..Len(lst) : KeyGreater(numeric, lst[j], lst[i])})
      + Cardinality({j \in 1..(i - 1) :
                        /\ ~KeyGreater(numeric, lst[j], lst[i])
                        /\ ~KeyGreater(numeric, lst[i], lst[j])})

SortDesc(lst, numeric) ==
    [r \in 1..Len(lst) |->
        lst[CHOOSE i \in 1..Len(lst) : SortRank(lst, numeric, i) = r]]

AllIntParse(lst) == \A i \in 1..Len(lst) : IntParses(lst[i].pn)

\* the raw keys of the fallback sort can be compared: all numbers or all strings
RawComparable(lst) ==
    \/ Len(lst) <= 1
    \/ \A i \in 1..Len(lst) : lst[i].pn.kind = "int"
    \/ \A i \in 1..Len(lst) : lst[i].pn.kind # "int"

\* Neither sort of lines 122-125 raises out of main
Sortable(lst) == AllIntParse(lst) \/ RawComparable(lst)

\* The list the try/except of lines 122-125 leaves
Sorted(lst) ==
    IF AllIntParse(lst) THEN SortDesc(lst, TRUE) ELSE SortDesc(lst, FALSE)

MInit ==
    /\ primary \in SeqsUpTo(Records, MaxLen)
    /\ secondary \in SeqsUpTo(Records, MaxLen)
    /\ merged = <<>>
    /\ mpc = "read"

XIdle ==
    /\ tasks = <<>>
    /\ max_workers = 1
    /\ pc = "idle"
    /\ exitStatus = Running
    /\ cachePos = 1
    /\ repo_cache = [r \in Repos |-> NoPath]
    /\ cloneCalls = [r \in Repos |-> 0]
    /\ fs = {}
    /\ tpc = <<>>
    /\ ver = <<>>
    /\ fut = <<>>
    /\ collected = {}
    /\ results = <<>>
    /\ fault = "none"
    /\ last = Spent

\* main, line 119
Merge ==
    /\ mpc = "read"
    /\ merged' = merge(primary, secondary)
    /\ mpc' = "merged"
    /\ UNCHANGED <<xvars, avars, primary, secondary>>

\* main, lines 122-125: numeric sort; on ValueError/TypeError the raw-key
\* sort, whose own TypeError (str against int) nothing catches
Sort ==
    /\ mpc = "merged"
    /\ IF Sortable(merged)
       THEN /\ merged' = Sorted(merged)
            /\ mpc' = "sorted"
       ELSE /\ mpc' = "crashed"
            /\ UNCHANGED merged
    /\ UNCHANGED <<xvars, avars, primary, secondary>>

\* main, lines 128-129
WriteFinal ==
    /\ mpc = "sorted"
    /\ mpc' = "written"
    /\ UNCHANGED <<xvars, avars, primary, secondary, merged>>

MNext ==
    \/ Merge
    \/ Sort
    \/ WriteFinal

MergeInit == XIdle /\ MInit /\ AIdle

MergeSpec == MergeInit /\ [][MNext]_vars

\* ================================================= write_dockerfile_agent.py
\* The content of a Dockerfile: who wrote it.
Seeded == <<"seeded">>
GeneratedIn(n) == <<"generated", n>>

\* get_latest_write_dockerfile_output_dir, lines 113-117: the number in the
\* name of the directory
LatestDir(count) == count

\* __init__, lines 23-32, and init_msg_thread, lines 35-38. The directory
\* write_dockerfile_agent_0 is never made by the agent; it may be there, with
\* a Dockerfile, all the same.
AInit ==
    /\ run_count = 0
    /\ using_ubuntu_only \in BOOLEAN
    /\ reference_setup \in BOOLEAN
    /\ msg_thread = <<"system", "repo_basic_info">>
    /\ dockerfiles \in {[n \in 0..MaxRuns |-> IF n = 0 THEN c ELSE NoFile] :
                            c \in {NoFile, Seeded}}
    /\ output_dirs = {}
    /\ conversations = {}
    /\ prev_dir = 0
    /\ curr_dir = 0
    /\ used = <<>>
    /\ returned = <<>>
    /\ apc = "idle"

\* add_reference_message, lines 40-50
ReferenceMessage == IF reference_setup THEN <<"reference">> ELSE <<>>

\* run_task, lines 67-77: the prompt for a modification or for a first Dockerfile
PromptMessages(prev_file) ==
    IF prev_file # NoFile
    THEN <<"previous_dockerfile", "modify">>
    ELSE IF using_ubuntu_only THEN <<"init_ubuntu_only">> ELSE <<"init">>

\* run_task, lines 59-77
BeginRound ==
    /\ apc = "idle"
    /\ run_count < MaxRuns
    /\ prev_dir' = LatestDir(run_count)
    /\ run_count' = run_count + 1
    /\ curr_dir' = LatestDir(run_count + 1)
    /\ output_dirs' = output_dirs \cup {LatestDir(run_count + 1)}
    /\ used' = Append(used, LatestDir(run_count + 1))
    /\ msg_thread' = msg_thread \o ReferenceMessage
                          \o PromptMessages(dockerfiles[LatestDir(run_count)])
    /\ apc' = "prompted"
    /\ UNCHANGED <<xvars, mvars, using_ubuntu_only, reference_setup, dockerfiles,
                   conversations, returned>>

\* run_task, lines 80-85: write_dockerfile_with_retries leaves a Dockerfile
\* in curr_dir, or leaves none, or raises; an exception leaves run_task.
Generate ==
    /\ apc = "prompted"
    /\ \E outcome \in {"written", "nothing", "raised"} :
          /\ dockerfiles' = IF outcome = "written"
                            THEN [dockerfiles EXCEPT ![curr_dir] = GeneratedIn(curr_dir)]
                            ELSE dockerfiles
          /\ apc' = IF outcome = "raised" THEN "raised" ELSE "generated"
    /\ UNCHANGED <<xvars, mvars, run_count, using_ubuntu_only, reference_setup,
                   msg_thread, output_dirs, conversations, prev_dir, curr_dir, used, returned>>

\* (mutation of Fallback: the previous Dockerfile is not copied)
FallbackSkipped(files, prev, curr) == files

\* run_task, lines 89-93: without a Dockerfile in curr_dir, the previous one,
\* if there is one, is copied there
Fallback(files, prev, curr) ==
    IF files[curr] = NoFile /\ files[prev] # NoFile
    THEN [files EXCEPT ![curr] = files[prev]]
    ELSE files

\* run_task, lines 88-104
PostProcess ==
    /\ apc = "generated"
    /\ dockerfiles' = Fallback(dockerfiles, prev_dir, curr_dir)
    /\ returned' = Append(returned, dockerfiles[curr_dir] # NoFile)     \* is_ok
    /\ conversations' = conversations \cup {LatestDir(run_count)}
    /\ apc' = "idle"
    /\ UNCHANGED <<xvars, mvars, run_count, using_ubuntu_only, reference_setup,
                   msg_thread, output_dirs, prev_dir, curr_dir, used>>

ANext ==
    \/ BeginRound
    \/ Generate
    \/ PostProcess

AgentInit == XIdle /\ MIdle /\ AInit

AgentSpec == AgentInit /\ [][ANext]_vars

\* ================================================= properties of MergeSpec

\* C4: the output of merge holds no two records with the same pull_number.
C4_UniquePullNumbers ==
    mpc = "merged" =>
        \A k, l \in 1..Len(merged) :
            (k # l /\ HasPn(merged[k]) /\ HasPn(merged[l]))
                => merged[k].pn # merged[l].pn

\* C5: the merge output starts with the primary records, unchanged and in
\* order; every record after them is a secondary record that has a
\* pull_number no earlier output record has; so a pull_number of both
\* sources is represented by primary's record only. Primary [5,3] with
\* secondary [3,7] is written as [7,5,3], the 3 being primary's.
C5_PrimaryWins ==
    /\ mpc = "merged" =>
          /\ Len(merged) >= Len(primary)
          /\ SubSeq(merged, 1, Len(primary)) = primary
          /\ \A k \in (Len(primary) + 1)..Len(merged) :
                /\ \E j \in 1..Len(secondary) : secondary[j] = merged[k]
                /\ HasPn(merged[k])
                /\ \A l \in 1..(k - 1) : merged[l].pn # merged[k].pn
          /\ \A j \in 1..Len(secondary) :
                (HasPn(secondary[j]) /\ secondary[j].pn \notin PnSet(primary))
                    => \E k \in (Len(primary) + 1)..Len(merged) :
                          merged[k].pn = secondary[j].pn
    /\ (mpc \in {"sorted", "written"} /\ primary = <<R5, R3a>> /\ secondary = <<R3b, R7>>)
          => merged = <<R7, R5, R3a>>

\* C5 witness: the scenario, after the sort; pull_number 3 is in both sources.
C5_Witness ==
    /\ mpc = "sorted"
    /\ primary = <<R5, R3a>>
    /\ secondary = <<R3b, R7>>

\* Every input record has a pull_number that int() accepts.
AllInputsNumeric ==
    /\ \A i \in 1..Len(primary) : HasPn(primary[i]) /\ IntParses(primary[i].pn)
    /\ \A i \in 1..Len(secondary) : HasPn(secondary[i]) /\ IntParses(secondary[i].pn)

\* C6: when every pull_number parses as an integer, the sorted output is
\* strictly descending by numeric pull_number.
C6_StrictlyDescending ==
    (mpc = "sorted" /\ AllInputsNumeric)
        => \A k \in 1..(Len(merged) - 1) : IntKey(merged[k]) > IntKey(merged[k + 1])

\* C10: on inputs whose pull_number sets are disjoint, reconciling
\* (primary, secondary) gives the same sequence as reconciling
\* (secondary, primary).
C10_Commutative ==
    (mpc = "sorted" /\ PnSet(primary) \cap PnSet(secondary) = {})
        => /\ Sortable(merge(secondary, primary))
           /\ merged = Sorted(merge(secondary, primary))

\* C11: reconciling the reconciled list with an empty secondary list gives
\* the same sequence again.
C11_RemergeIdempotent ==
    mpc = "sorted" =>
        /\ Sortable(merge(merged, <<>>))
        /\ Sorted(merge(merged, <<>>)) = merged

\* C11 witness: a reconciled list of both sources in which two neighbours
\* have equal sort keys.
C11_Witness ==
    /\ mpc = "sorted"
    /\ primary # <<>>
    /\ secondary # <<>>
    /\ \E k \in 1..(Len(merged) - 1) :
          /\ ~KeyGreater(AllIntParse(merged), merged[k], merged[k + 1])
          /\ merged[k] # merged[k + 1]

\* The records of lst that have no pull_number.
Keyless(lst) == {k \in 1..Len(lst) : ~HasPn(lst[k])}

\* C12: the pull_numbers of the merge output are those of primary and
\* those of secondary together; a secondary record without pull_number is
\* not in the output under any key: the output has one record more than
\* primary for each new pull_number of secondary and no further record
\* without pull_number.
C12_PullNumbersAreTheUnion ==
    mpc = "merged" =>
        /\ PnSet(merged) = PnSet(primary) \cup PnSet(secondary)
        /\ Cardinality(Keyless(merged)) = Cardinality(Keyless(primary))
        /\ Len(merged) = Len(primary) + Cardinality(PnSet(secondary) \ PnSet(primary))

\* C12 witness: secondary holds a record without pull_number and a record
\* with a pull_number primary does not have.
C12_Witness ==
    /\ mpc = "merged"
    /\ Keyless(secondary) # {}
    /\ PnSet(secondary) \ PnSet(primary) # {}
    /\ primary # <<>>

\* The orders in which the records of lst can arrive.
Orders(lst) ==
    {f \in [1..Len(lst) -> 1..Len(lst)] :
        \A k, l \in 1..Len(lst) : f[k] = f[l] => k = l}

Reordered(lst, f) == [k \in 1..Len(lst) |-> lst[f[k]]]

\* C18: the reconciled list does not depend on the order in which the
\* successful tasks completed, that is on the order of the records of the
\* secondary source: every order gives the sequence this run gave.
C18_CompletionOrderIrrelevant ==
    mpc = "sorted" =>
        \A f \in Orders(secondary) :
            /\ Sortable(merge(primary, Reordered(secondary, f)))
            /\ Sorted(merge(primary, Reordered(secondary, f))) = merged

\* C19: the sort never fails, and it leaves the list ordered by
\* pull_number, descending, in one mode for the whole list: numeric when
\* every pull_number converts, on the raw keys otherwise.
C19_SortCompletes ==
    /\ mpc # "crashed"
    /\ mpc = "sorted" =>
          \A k \in 1..(Len(merged) - 1) :
              ~KeyGreater(AllIntParse(merged), merged[k + 1], merged[k])

\* ================================================= further properties of Spec

\* C13: a task whose attempt ended in the except clause, whichever step
\* raised (no cache entry, copy, checkout, describe without a reachable tag,
\* descriptor without major.minor), returns None; a task that returned None
\* has no record in results; and every record of results carries a version
\* the pattern matched, never an empty or stand-in one.
C13_FailedTaskOmitted ==
    [][ /\ \A i \in DOMAIN tpc :
             (tpc[i] \in FailedAt /\ tpc'[i] = "done") => fut'[i] = "none"
        /\ \A i \in DOMAIN fut' :
             fut'[i] = "none" => \A k \in 1..Len(results') : results'[k].task # i
        /\ \A k \in 1..Len(results') : results'[k].version # NoVersion
      ]_vars

\* C13 witness: process_repos returned an empty list after a task of an
\* uncloned repository and a task of a cloned repository both failed.
C13_Witness ==
    /\ pc = "save"
    /\ Len(tasks) = 2
    /\ Cardinality(Uncached) = 1
    /\ \A i \in DOMAIN fut : fut[i] = "none"
    /\ results = <<>>

\* C14: main always gets past the filter, with exactly the input tasks whose
\* instance_id is not among the ids of the already-processed file (all of
\* them when no directory is given, no file is found or the file cannot be
\* read), and these are the tasks process_repos submits.
C14_SubmittedIffNotProcessed ==
    [][ /\ pc = "filter" =>
             /\ pc' = "validate"
             /\ tasks' = SelectSeq(tasks, LAMBDA t : t.instance_id \notin last.ids)
        /\ (pc = "cache" /\ pc' = "pool") => DOMAIN tpc' = 1..Len(tasks)
      ]_vars

\* C15: a step that runs git clone or writes the repo_cache mapping is taken
\* before any task is submitted to the pool; from the submission on the
\* mapping and the clone counts stay as they are.
C15_CacheWrittenBeforePool ==
    [][ (repo_cache' # repo_cache \/ cloneCalls' # cloneCalls)
            => (pc = "cache" /\ tpc = <<>> /\ tpc' = <<>>) ]_vars

\* C15 witness: a task is running while one repository has a cache entry and
\* another, whose clone failed, has none.
C15_Witness ==
    /\ pc = "pool"
    /\ \E i \in DOMAIN tpc : InFlight(i)
    /\ \E r \in Repos : repo_cache[r] # NoPath
    /\ \E r \in Repos : repo_cache[r] = NoPath /\ cloneCalls[r] > 0

\* C16: never more than max_workers calls of process_repo_task run at the
\* same time, and when main has ended after the submission every task has
\* run to its end and process_repos has returned its list.
C16_AllTasksRunToReturn ==
    /\ Cardinality({i \in DOMAIN tpc : InFlight(i)}) <= max_workers
    /\ (pc = "exit" /\ tpc # <<>>)
          => ((\A i \in DOMAIN tpc : tpc[i] = "done") /\ Returned)

\* C17: no step of the pool phase removes the cache directory or a
\* directory under it.
C17_CacheUntouched ==
    [][ \A q \in fs : (PoolOpen /\ IsPrefix(CacheDir, q)) => q \in fs' ]_vars

\* ================================================= properties of AgentSpec

====
